---- MODULE Spec2Model ----
(***************************************************************************)
(* DynamicEnvironmentMapManager (packages/engine/Source/Scene): the        *)
(* multi-frame pipeline radiance -> specular convolution -> irradiance ->  *)
(* spherical-harmonic coefficients, its invalidation (_reset) and its      *)
(* teardown (destroy), together with the external executor that runs the   *)
(* compute commands the manager appends to the frame's command list.       *)
(***************************************************************************)
EXTENDS Integers, FiniteSets, Sequences, TLC

(* ------------------------------ bounds --------------------------------- *)
\* Largest mipmapLevels option a manager is constructed with.
MaxMipmapLevels == 2
\* Largest number of _reset calls (invalidations) in one behaviour.
MaxResets == 2

(* ------------------------- program constants --------------------------- *)
\* A cube map has six faces (CubeMap.faces(), CubeMap.faceNames).
NumFaces == 6
\* this.maximumSecondsDifference = 60 * 20
maximumSecondsDifference == 1200
\* CesiumMath.EPSILON8, in the unit the model's coordinates are counted in
\* (one unit is 1e-8).
EPSILON8 == 1
\* this._sphericalHarmonicCoefficients = new Array(9)
NumCoefficients == 9

Faces == 0 .. (NumFaces - 1)

\* A slot, field or handle that holds no object.
Undefined == 0
\* A field that holds a live GPU object.
Live == 1
defined(x) == x # Undefined

\* The position "undefined" and the positions the host sets (x, y, z).
NoPosition == << >>
Positions == { <<0, 0, 0>>, <<1, 1, 0>>, <<3, 0, 0>> }
\* The frame times the host's clock passes to update (seconds).
Times == { 0, maximumSecondsDifference, maximumSecondsDifference + 1 }

Abs(x) == IF x < 0 THEN -x ELSE x

\* Cartesian3.equalsEpsilon(left, right, epsilon)
Cartesian3EqualsEpsilon(left, right, epsilon) ==
    \/ left = right
    \/ /\ left # NoPosition
       /\ right # NoPosition
       /\ \A k \in 1..3 : Abs(left[k] - right[k]) <= epsilon

\* JulianDate.equalsEpsilon(left, right, epsilon)
JulianDateEqualsEpsilon(left, right, epsilon) ==
    Abs(left - right) <= epsilon

\* (mipmapLevels - 1) * 6, the length of the convolution command array and of
\* the specular texture array.
ChainLength(mipmapLevels) == (mipmapLevels - 1) * NumFaces

Kinds == { "cubeMap", "faceTexture", "specularTexture", "irradianceTexture",
           "convolveSP", "va" }
Stages == { "radiance", "convolution", "irradiance" }

VARIABLES
    manager,      \* the fields of the DynamicEnvironmentMapManager
    commandList,  \* the compute commands handed to the executor, not yet run
    context,      \* the GPU: objects created/destroyed, irradiance texels, sampler
    facesCopied,  \* facesCopied of each updateSpecularMaps call (closure)
    ghost,        \* history: _reset calls, commands issued per stage, whether a
                  \* _reset came after the first commands, update's true returns,
                  \* whether the pipeline completed since the last _reset
    lastOp        \* the operation that produced this state: its name, what it
                  \* returned, its argument (update: frameState.time, position:
                  \* the value assigned)

vars == << manager, commandList, context, facesCopied, ghost, lastOp >>

\* new ComputeCommand({...}): a command of a stage, for slot index, issued by
\* the batch-th issuing call of its stage during invalidation cycle `cycle`
\* (the number of _reset calls before it).
Command(stage, index, batch, cycle) ==
    [ stage |-> stage, index |-> index, batch |-> batch, cycle |-> cycle,
      canceled |-> FALSE ]

\* The state the operations act on, as one record.
World ==
    [ m |-> manager, cl |-> commandList, ctx |-> context,
      fc |-> facesCopied, g |-> ghost ]

\* function DynamicEnvironmentMapManager(options)
Constructor(mipmapLevels) ==
    [ position |-> NoPosition,
      radianceCommandsDirty |-> TRUE,
      radianceMapDirty |-> TRUE,
      convolutionsCommandsDirty |-> FALSE,
      irradianceCommandDirty |-> FALSE,
      irradianceTextureDirty |-> FALSE,
      sphericalHarmonicCoefficientsDirty |-> FALSE,
      mipmapLevels |-> mipmapLevels,
      radianceMapComputeCommands |-> [i \in Faces |-> Undefined],
      convolutionComputeCommands |->
          [i \in 0 .. (ChainLength(mipmapLevels) - 1) |-> Undefined],
      irradianceComputeCommand |-> Undefined,
      \* read by _reset and destroy, assigned nowhere
      irradianceMapComputeCommand |-> Undefined,
      radianceMapFS |-> Undefined,
      irradianceMapFS |-> Undefined,
      convolveSP |-> Undefined,
      va |-> Undefined,
      radianceMapTextures |-> [i \in Faces |-> Undefined],
      specularMapTextures |->
          [i \in 0 .. (ChainLength(mipmapLevels) - 1) |-> Undefined],
      radianceCubeMap |-> Undefined,
      irradianceMapTexture |-> Undefined,
      sphericalHarmonicCoefficients |-> [i \in 0 .. (NumCoefficients - 1) |-> << >>],
      lastTime |-> 0,
      enabled |-> TRUE,
      isDestroyed |-> FALSE ]

Init ==
    /\ \E n \in 1 .. MaxMipmapLevels : manager = Constructor(n)
    /\ commandList = {}
    /\ context = [ created |-> [k \in Kinds |-> 0],
                   destroyed |-> [k \in Kinds |-> 0],
                   irradiance |-> [ command |-> {}, radiance |-> FALSE ],
                   sampler |-> "default" ]
    /\ facesCopied = << >>
    /\ ghost = [ resets |-> 0, issued |-> [s \in Stages |-> 0],
                 interrupted |-> FALSE, trues |-> 0, completed |-> FALSE ]
    /\ lastOp = [ op |-> "constructor", ret |-> "undefined", arg |-> 0 ]

(* --------------------------- invalidation ------------------------------ *)
\* The loops of _reset and destroy over one command array: every command the
\* array holds gets canceled = true.  A slot holds the batch of its command.
CancelSlots(cl, stage, slots) ==
    { IF /\ c.stage = stage
         /\ c.index \in DOMAIN slots
         /\ defined(slots[c.index])
         /\ slots[c.index] = c.batch
      THEN [c EXCEPT !.canceled = TRUE]
      ELSE c : c \in cl }

\* if (defined(this._irradianceMapComputeCommand)) {canceled = true}: the
\* field tested is _irradianceMapComputeCommand.
CancelIrradiance(cl, field) ==
    { IF c.stage = "irradiance" /\ defined(field) /\ field = c.batch
      THEN [c EXCEPT !.canceled = TRUE]
      ELSE c : c \in cl }

\* DynamicEnvironmentMapManager.prototype._reset
Reset(w) ==
    [ w EXCEPT
        !.cl = CancelIrradiance(
                   CancelSlots(
                       CancelSlots(@, "radiance", w.m.radianceMapComputeCommands),
                       "convolution", w.m.convolutionComputeCommands),
                   w.m.irradianceMapComputeCommand),
        !.m.radianceMapComputeCommands = [i \in DOMAIN @ |-> Undefined],
        !.m.convolutionComputeCommands = [i \in DOMAIN @ |-> Undefined],
        !.m.irradianceMapComputeCommand = Undefined,
        !.m.radianceMapDirty = TRUE,
        !.m.radianceCommandsDirty = TRUE,
        !.g.resets = @ + 1,
        !.g.interrupted = @ \/ w.g.issued["radiance"] > 0,
        !.g.completed = FALSE ]

(* ------------------------------ stages --------------------------------- *)
\* The number of undefined entries of a texture array.
Missing(textures) == Cardinality({ i \in DOMAIN textures : ~defined(textures[i]) })

\* Mutant: the commands are issued and _radianceCommandsDirty stays set.
UpdateRadianceMapStaysDirty(w) ==
    LET w1 == IF ~defined(w.m.radianceCubeMap)
              THEN [ w EXCEPT !.m.radianceCubeMap = Live,
                              !.ctx.created["cubeMap"] = @ + 1 ]
              ELSE w
        b == (w1.g.issued["radiance"] \div NumFaces) + 1
    IN  IF w1.m.radianceCommandsDirty
        THEN [ w1 EXCEPT
                 !.m.radianceMapFS = Live,
                 !.ctx.created["faceTexture"] = @ + Missing(w1.m.radianceMapTextures),
                 !.m.radianceMapTextures = [i \in Faces |-> Live],
                 !.cl = @ \cup { Command("radiance", i, b, w1.g.resets) : i \in Faces },
                 !.m.radianceMapComputeCommands = [i \in Faces |-> b],
                 !.g.issued["radiance"] = @ + NumFaces ]
        ELSE w1

\* updateRadianceMap(manager, frameState)
UpdateRadianceMap(w) ==
    LET w1 == IF ~defined(w.m.radianceCubeMap)
              THEN [ w EXCEPT !.m.radianceCubeMap = Live,
                              !.ctx.created["cubeMap"] = @ + 1 ]
              ELSE w
        b == (w1.g.issued["radiance"] \div NumFaces) + 1
    IN  IF w1.m.radianceCommandsDirty
        THEN [ w1 EXCEPT
                 !.m.radianceMapFS = Live,
                 !.ctx.created["faceTexture"] = @ + Missing(w1.m.radianceMapTextures),
                 !.m.radianceMapTextures = [i \in Faces |-> Live],
                 !.cl = @ \cup { Command("radiance", i, b, w1.g.resets) : i \in Faces },
                 !.m.radianceMapComputeCommands = [i \in Faces |-> b],
                 !.m.radianceCommandsDirty = FALSE,
                 !.g.issued["radiance"] = @ + NumFaces ]
        ELSE w1

\* Mutant: a chain of length 0 flags the irradiance stage at once, there
\* being no command whose completion could.
UpdateSpecularMapsFlagsEmptyChain(w) ==
    LET n == ChainLength(w.m.mipmapLevels)
        b == IF n > 0 THEN (w.g.issued["convolution"] \div n) + 1 ELSE 1
    IN  [ w EXCEPT
            !.fc = IF n > 0 THEN @ @@ (b :> 0) ELSE @,
            !.ctx.created["specularTexture"] = @ + n,
            !.m.specularMapTextures = [i \in DOMAIN @ |-> Live],
            !.ctx.created["va"] = IF n > 0 /\ ~defined(w.m.va) THEN @ + 1 ELSE @,
            !.m.va = IF n > 0 THEN Live ELSE @,
            !.ctx.created["convolveSP"] =
                IF n > 0 /\ ~defined(w.m.convolveSP) THEN @ + 1 ELSE @,
            !.m.convolveSP = IF n > 0 THEN Live ELSE @,
            !.m.convolutionComputeCommands = [i \in DOMAIN @ |-> b],
            !.cl = @ \cup { Command("convolution", i, b, w.g.resets) : i \in 0 .. (n - 1) },
            !.g.issued["convolution"] = @ + n,
            !.m.irradianceCommandDirty = IF n = 0 THEN TRUE ELSE @ ]

\* updateSpecularMaps(manager, frameState)
UpdateSpecularMaps(w) ==
    LET n == ChainLength(w.m.mipmapLevels)
        b == IF n > 0 THEN (w.g.issued["convolution"] \div n) + 1 ELSE 1
    IN  [ w EXCEPT
            \* let facesCopied = 0, captured by the callbacks of this call
            !.fc = IF n > 0 THEN @ @@ (b :> 0) ELSE @,
            !.ctx.created["specularTexture"] = @ + n,
            !.m.specularMapTextures = [i \in DOMAIN @ |-> Live],
            !.ctx.created["va"] = IF n > 0 /\ ~defined(w.m.va) THEN @ + 1 ELSE @,
            !.m.va = IF n > 0 THEN Live ELSE @,
            !.ctx.created["convolveSP"] =
                IF n > 0 /\ ~defined(w.m.convolveSP) THEN @ + 1 ELSE @,
            !.m.convolveSP = IF n > 0 THEN Live ELSE @,
            !.m.convolutionComputeCommands = [i \in DOMAIN @ |-> b],
            !.cl = @ \cup { Command("convolution", i, b, w.g.resets) : i \in 0 .. (n - 1) },
            !.g.issued["convolution"] = @ + n ]

\* updateIrradianceResources(manager, frameState)
UpdateIrradianceResources(w) ==
    LET b == w.g.issued["irradiance"] + 1
    IN  [ w EXCEPT
            !.ctx.created["irradianceTexture"] =
                IF ~defined(w.m.irradianceMapTexture) THEN @ + 1 ELSE @,
            !.m.irradianceMapTexture = Live,
            !.m.irradianceMapFS = Live,
            !.m.irradianceComputeCommand = b,
            !.cl = @ \cup { Command("irradiance", 0, b, w.g.resets) },
            !.m.irradianceTextureDirty = TRUE,
            !.g.issued["irradiance"] = @ + 1 ]

\* context.readPixels of the 3x3 RGBA irradiance texture: 36 channel values.
\* Channel c of texel i of a texture written by the irradiance command of
\* cycle k reads 100 * k + 4 * i + c; a texture never written reads zeros.
ReadPixels(texture) ==
    [ j \in 0 .. (4 * NumCoefficients - 1) |->
        IF texture.command = {} THEN 0
        ELSE 100 * (CHOOSE k \in texture.command : TRUE) + j ]

\* Cartesian3.unpack(array, startingIndex)
Unpack(array, startingIndex) ==
    << array[startingIndex], array[startingIndex + 1], array[startingIndex + 2] >>

\* Mutant: the texels are read three channels apart, as if the readback had
\* no fourth channel.
UpdateSphericalHarmonicCoefficientsPacked(w) ==
    LET data == ReadPixels(w.ctx.irradiance)
    IN  [ w EXCEPT !.m.sphericalHarmonicCoefficients =
                       [i \in 0 .. (NumCoefficients - 1) |-> Unpack(data, i * 3)] ]

\* updateSphericalHarmonicCoefficients(manager, frameState)
UpdateSphericalHarmonicCoefficients(w) ==
    LET data == ReadPixels(w.ctx.irradiance)
    IN  [ w EXCEPT !.m.sphericalHarmonicCoefficients =
                       [i \in 0 .. (NumCoefficients - 1) |-> Unpack(data, i * 4)] ]

(* ------------------------ completion callbacks ------------------------- *)
\* Whether the six faces of the radiance cube map all show the output of the
\* radiance commands of the current cycle: these were issued (the flag
\* _radianceCommandsDirty is cleared) and none is left in its slot.
RadianceComplete(m) ==
    /\ ~m.radianceCommandsDirty
    /\ \A i \in Faces : ~defined(m.radianceMapComputeCommands[i])

\* Mutant: the callback flags the convolution stage at every completion,
\* without the test that all six slots are empty.
RadiancePostExecuteEveryFace(w, c) ==
    [ w EXCEPT
        !.m.radianceMapComputeCommands[c.index] = Undefined,
        !.m.convolutionsCommandsDirty = TRUE ]

\* postExecute of the radiance command c (updateRadianceMap)
RadiancePostExecute(w, c) ==
    LET commands == [w.m.radianceMapComputeCommands EXCEPT ![c.index] = Undefined]
    IN  [ w EXCEPT
            !.m.radianceMapComputeCommands = commands,
            !.m.convolutionsCommandsDirty =
                IF \A i \in DOMAIN commands : ~defined(commands[i]) THEN TRUE ELSE @ ]

\* Mutant: the callback takes the command of the last slot for the last one
\* to complete, instead of counting the faces copied.
ConvolutionPostExecuteLastSlot(w, c) ==
    LET copied == w.fc[c.batch] + 1
        all == c.index = Cardinality(DOMAIN w.m.specularMapTextures) - 1
    IN  [ w EXCEPT
            !.m.convolutionComputeCommands[c.index] = Undefined,
            !.fc[c.batch] = copied,
            !.m.irradianceCommandDirty = IF all THEN TRUE ELSE @,
            !.ctx.sampler = IF all THEN "LINEAR_MIPMAP_LINEAR" ELSE @ ]

\* getPostExecute(index, texture, face, level) of the convolution command c
\* (updateSpecularMaps); facesCopied belongs to the call that issued c.
ConvolutionPostExecute(w, c) ==
    LET copied == w.fc[c.batch] + 1
        all == copied = Cardinality(DOMAIN w.m.specularMapTextures)
    IN  [ w EXCEPT
            !.m.convolutionComputeCommands[c.index] = Undefined,
            !.fc[c.batch] = copied,
            !.m.irradianceCommandDirty = IF all THEN TRUE ELSE @,
            !.ctx.sampler = IF all THEN "LINEAR_MIPMAP_LINEAR" ELSE @ ]

\* Mutant: the callback leaves _irradianceTextureDirty set.
IrradiancePostExecuteStaysDirty(w, c) ==
    [ w EXCEPT
        !.ctx.irradiance = [ command |-> {c.cycle}, radiance |-> RadianceComplete(w.m) ],
        !.m.irradianceComputeCommand = Undefined,
        !.m.sphericalHarmonicCoefficientsDirty = TRUE ]

\* postExecute of the irradiance command c (updateIrradianceResources)
IrradiancePostExecute(w, c) ==
    [ w EXCEPT
        \* the command's output texture, computed from u_radianceMap
        !.ctx.irradiance = [ command |-> {c.cycle}, radiance |-> RadianceComplete(w.m) ],
        !.m.irradianceTextureDirty = FALSE,
        !.m.irradianceComputeCommand = Undefined,
        !.m.sphericalHarmonicCoefficientsDirty = TRUE ]

PostExecute(w, c) ==
    CASE c.stage = "radiance" -> RadiancePostExecute(w, c)
      [] c.stage = "convolution" -> ConvolutionPostExecute(w, c)
      [] c.stage = "irradiance" -> IrradiancePostExecute(w, c)

(* ----------------------------- sequencer ------------------------------- *)
\* Mutant: the drift invalidates but the baseline is not recorded.
TimeCheckKeepsBaseline(w, time) ==
    IF ~JulianDateEqualsEpsilon(time, w.m.lastTime, maximumSecondsDifference)
    THEN Reset(w)
    ELSE w

\* The time check of update: _reset and the new baseline on drift.
TimeCheck(w, time) ==
    IF ~JulianDateEqualsEpsilon(time, w.m.lastTime, maximumSecondsDifference)
    THEN [ Reset(w) EXCEPT !.m.lastTime = time ]
    ELSE w

\* Mutant: the extraction leaves _sphericalHarmonicCoefficientsDirty set.
DispatchKeepsCoefficientsDirty(w) ==
    IF w.m.radianceMapDirty
    THEN [ w |-> [UpdateRadianceMap(w) EXCEPT !.m.radianceMapDirty = FALSE],
           ret |-> "false" ]
    ELSE IF w.m.convolutionsCommandsDirty
    THEN [ w |-> [UpdateSpecularMaps(w) EXCEPT !.m.convolutionsCommandsDirty = FALSE],
           ret |-> "false" ]
    ELSE LET w2 == IF w.m.irradianceCommandDirty
                   THEN [ UpdateIrradianceResources(w)
                            EXCEPT !.m.irradianceCommandDirty = FALSE ]
                   ELSE w
         IN  IF w2.m.irradianceTextureDirty
             THEN [ w |-> w2, ret |-> "false" ]
             ELSE IF w2.m.sphericalHarmonicCoefficientsDirty
             THEN [ w |-> UpdateSphericalHarmonicCoefficients(w2), ret |-> "true" ]
             ELSE [ w |-> w2, ret |-> "undefined" ]

\* Mutant: the radiance branch does not return; the call goes on to the tests
\* of the later stages.
DispatchFallsThrough(w) ==
    LET w1 == IF w.m.radianceMapDirty
              THEN [UpdateRadianceMap(w) EXCEPT !.m.radianceMapDirty = FALSE]
              ELSE w
    IN  IF w1.m.convolutionsCommandsDirty
        THEN [ w |-> [UpdateSpecularMaps(w1) EXCEPT !.m.convolutionsCommandsDirty = FALSE],
               ret |-> "false" ]
        ELSE LET w2 == IF w1.m.irradianceCommandDirty
                       THEN [ UpdateIrradianceResources(w1)
                                EXCEPT !.m.irradianceCommandDirty = FALSE ]
                       ELSE w1
             IN  IF w2.m.irradianceTextureDirty
                 THEN [ w |-> w2, ret |-> "false" ]
                 ELSE IF w2.m.sphericalHarmonicCoefficientsDirty
                 THEN [ w |-> [ UpdateSphericalHarmonicCoefficients(w2)
                                  EXCEPT !.m.sphericalHarmonicCoefficientsDirty = FALSE ],
                        ret |-> "true" ]
                 ELSE [ w |-> w2, ret |-> "undefined" ]

\* The stage dispatch of update, after the time check.
Dispatch(w) ==
    IF w.m.radianceMapDirty
    THEN [ w |-> [UpdateRadianceMap(w) EXCEPT !.m.radianceMapDirty = FALSE],
           ret |-> "false" ]
    ELSE IF w.m.convolutionsCommandsDirty
    THEN [ w |-> [UpdateSpecularMaps(w) EXCEPT !.m.convolutionsCommandsDirty = FALSE],
           ret |-> "false" ]
    ELSE LET w2 == IF w.m.irradianceCommandDirty
                   THEN [ UpdateIrradianceResources(w)
                            EXCEPT !.m.irradianceCommandDirty = FALSE ]
                   ELSE w
         IN  IF w2.m.irradianceTextureDirty
             THEN [ w |-> w2, ret |-> "false" ]
             ELSE IF w2.m.sphericalHarmonicCoefficientsDirty
             THEN [ w |-> [ UpdateSphericalHarmonicCoefficients(w2)
                              EXCEPT !.m.sphericalHarmonicCoefficientsDirty = FALSE ],
                    ret |-> "true" ]
             \* the function ends without a return statement
             ELSE [ w |-> w2, ret |-> "undefined" ]

\* Mutant: the early return tests enabled only, not the position.
UpdateWithoutPositionTest(w, time) ==
    IF ~w.m.enabled
    THEN [ w |-> w, ret |-> "false" ]
    ELSE Dispatch(TimeCheck(w, time))

\* DynamicEnvironmentMapManager.prototype.update
Update(w, time) ==
    IF ~w.m.enabled \/ w.m.position = NoPosition
    THEN [ w |-> w, ret |-> "false" ]
    ELSE Dispatch(TimeCheck(w, time))

\* Mutant: the setter compares with strict equality, without the tolerance.
SetPositionExact(w, value) ==
    IF value = w.m.position
    THEN w
    ELSE Reset([ w EXCEPT !.m.position = value ])

\* position (setter)
SetPosition(w, value) ==
    IF Cartesian3EqualsEpsilon(value, w.m.position, EPSILON8)
    THEN w
    ELSE Reset([ w EXCEPT !.m.position = value ])

\* The texture loops and fields of destroy: x = x && x.destroy()
DestroyTextures(w) ==
    [ w EXCEPT
        !.ctx.destroyed["faceTexture"] =
            @ + Cardinality({ i \in Faces : defined(w.m.radianceMapTextures[i]) }),
        !.m.radianceMapTextures = [i \in DOMAIN @ |-> Undefined],
        !.ctx.destroyed["specularTexture"] =
            @ + Cardinality({ i \in DOMAIN w.m.specularMapTextures :
                                defined(w.m.specularMapTextures[i]) }),
        !.m.specularMapTextures = [i \in DOMAIN @ |-> Undefined],
        !.ctx.destroyed["cubeMap"] = IF defined(w.m.radianceCubeMap) THEN @ + 1 ELSE @,
        !.m.radianceCubeMap = Undefined,
        !.ctx.destroyed["irradianceTexture"] =
            IF defined(w.m.irradianceMapTexture) THEN @ + 1 ELSE @,
        !.m.irradianceMapTexture = Undefined ]

\* DynamicEnvironmentMapManager.prototype.destroy
Destroy(w) ==
    [ DestroyTextures(w) EXCEPT
        !.cl = CancelIrradiance(
                   CancelSlots(
                       CancelSlots(@, "radiance", w.m.radianceMapComputeCommands),
                       "convolution", w.m.convolutionComputeCommands),
                   w.m.irradianceMapComputeCommand),
        !.m.isDestroyed = TRUE ]

(* ------------------------------ actions -------------------------------- *)
\* The six dirty flags of the manager.
Flags(m) ==
    << m.radianceCommandsDirty, m.radianceMapDirty, m.convolutionsCommandsDirty,
       m.irradianceCommandDirty, m.irradianceTextureDirty,
       m.sphericalHarmonicCoefficientsDirty >>

NoFlag == << FALSE, FALSE, FALSE, FALSE, FALSE, FALSE >>

\* The history of update's returns: how often it returned true, and whether
\* it returned true, leaving all six flags false, since the last _reset.
Returned(w, ret) ==
    IF ret = "true"
    THEN [ w EXCEPT !.g.trues = @ + 1,
                    !.g.completed = (Flags(w.m) = NoFlag) ]
    ELSE w

Apply(w, op, ret, arg) ==
    /\ manager' = w.m
    /\ commandList' = w.cl
    /\ context' = w.ctx
    /\ facesCopied' = w.fc
    /\ ghost' = w.g
    /\ lastOp' = [ op |-> op, ret |-> ret, arg |-> arg ]

\* The host assigns manager.position; `midRun` tells whether it may
\* invalidate once commands have been issued.
PositionSetWhen(midRun) ==
    /\ ~manager.isDestroyed
    /\ \E value \in Positions \cup {NoPosition} :
          LET w == SetPosition(World, value)
          IN  /\ w.g.resets <= MaxResets
              /\ midRun \/ ~w.g.interrupted
              /\ Apply(w, "position", "undefined", value)

PositionSet == PositionSetWhen(TRUE)

\* The host assigns manager.enabled.
EnabledSet ==
    /\ ~manager.isDestroyed
    /\ \E b \in BOOLEAN :
          Apply([World EXCEPT !.m.enabled = b], "enabled", "undefined", 0)

\* The host's render loop calls manager.update(frameState) with
\* frameState.time = time; `midRun` tells whether the time may drift once
\* commands have been issued.
UpdateCallWhen(midRun) ==
    /\ ~manager.isDestroyed
    /\ \E time \in Times :
          LET r == Update(World, time)
          IN  /\ r.w.g.resets <= MaxResets
              /\ midRun \/ ~r.w.g.interrupted
              /\ Apply(Returned(r.w, r.ret), "update", r.ret, time)

UpdateCall == UpdateCallWhen(TRUE)

\* The executor passes over the canceled commands of its list: they leave the
\* list without running.  The facesCopied counters no command of the list can
\* reach any more are garbage.
DropCanceled(w) ==
    LET cl == { c \in w.cl : ~c.canceled }
    IN  [ w EXCEPT
            !.cl = cl,
            !.fc = [ b \in { x \in DOMAIN @ :
                               \E c \in cl : c.stage = "convolution" /\ c.batch = x }
                     |-> @[b] ] ]

\* The executor runs command c: the command leaves the list, then its
\* postExecute runs.
Run(w, c) ==
    DropCanceled(PostExecute([w EXCEPT !.cl = @ \ {c}], c))

\* Command c is the first of its batch left in the list: the commands of one
\* call were pushed in slot order.
FirstOfBatch(cl, c) ==
    \A d \in cl :
        (d.stage = c.stage /\ d.batch = c.batch /\ ~d.canceled) => c.index <= d.index

\* The executor runs a command that is not canceled.  It takes the commands of
\* one batch in the order they were pushed, as a pass over the frame's list
\* does; the batches of different calls interleave freely with one another
\* and with the host's calls.
Execute ==
    \E c \in commandList :
        /\ ~c.canceled
        /\ FirstOfBatch(commandList, c)
        /\ Apply(Run(World, c), "execute", "undefined", 0)

\* The executor runs any command that is not canceled, in any order.
ExecuteAnyOrder ==
    \E c \in commandList :
        /\ ~c.canceled
        /\ Apply(Run(World, c), "execute", "undefined", 0)

\* The executor's list holds canceled commands, which it drops.
Skip ==
    /\ \E c \in commandList : c.canceled
    /\ Apply(DropCanceled(World), "skip", "undefined", 0)

\* The host calls manager.destroy().
DestroyCall ==
    /\ ~manager.isDestroyed
    /\ Apply(Destroy(World), "destroy", "undefined", 0)

Next ==
    \/ PositionSet
    \/ EnabledSet
    \/ UpdateCall
    \/ Execute
    \/ Skip
    \/ DestroyCall

Spec == Init /\ [][Next]_vars

\* The uninterrupted runs: the host invalidates (new position, drifted time)
\* only before the first commands are issued, leaves the manager enabled and
\* does not tear it down, and the executor completes the commands in any
\* order.  No command is ever canceled in these runs.
PositionSetEarly == PositionSetWhen(FALSE)
UpdateCallSteady == UpdateCallWhen(FALSE)

NextUninterrupted ==
    \/ PositionSetEarly
    \/ UpdateCallSteady
    \/ ExecuteAnyOrder

SpecUninterrupted == Init /\ [][NextUninterrupted]_vars

\* The executor does not pass over a canceled command it had already taken
\* up: it calls the command's postExecute.  The other canceled commands of
\* its list it drops.
ExecuteCanceled ==
    \E c \in commandList :
        /\ c.canceled
        /\ Apply(DropCanceled(PostExecute([World EXCEPT !.cl = @ \ {c}], c)),
                 "executeCanceled", "undefined", c.cycle)

\* The runs with an executor that may call the postExecute of canceled
\* commands.
NextCanceledRuns ==
    \/ PositionSet
    \/ UpdateCall
    \/ Execute
    \/ ExecuteCanceled

SpecCanceledRuns == Init /\ [][NextCanceledRuns]_vars

\* The runs of a manager that is not torn down, under a render loop that
\* keeps calling update and an executor that keeps running the commands it
\* does not pass over.  The host invalidates at any point, at most
\* MaxResets times.
NextFair ==
    \/ PositionSetEarly
    \/ UpdateCall
    \/ Execute

SpecFair ==
    Init /\ [][NextFair]_vars /\ WF_vars(UpdateCall) /\ WF_vars(Execute)

(* ------------------------------ claims --------------------------------- *)
\* The command c is held by the slot of its stage.
InSlot(m, c) ==
    CASE c.stage = "radiance" -> m.radianceMapComputeCommands[c.index] = c.batch
      [] c.stage = "convolution" -> m.convolutionComputeCommands[c.index] = c.batch
      [] c.stage = "irradiance" -> m.irradianceComputeCommand = c.batch

\* Everything but lastOp: what an operation without effect leaves unchanged.
program == << manager, commandList, context, facesCopied, ghost >>

\* C1: after an invalidation, every command of the list that was issued
\* before it (in an earlier cycle), in any of the three stages, is marked
\* canceled and is in no slot.
C1_InvalidationCancelsAll ==
    \A c \in commandList :
        c.cycle < ghost.resets => (c.canceled /\ ~InSlot(manager, c))

\* C2: when update has returned true, the irradiance texture it read was
\* written by an irradiance command issued in the current cycle, which ran
\* when the six radiance commands of that cycle had completed.
C2_SnapshotConsistent ==
    (lastOp.op = "update" /\ lastOp.ret = "true") =>
        /\ context.irradiance.command = {ghost.resets}
        /\ context.irradiance.radiance

\* No command of the stage is in the list.
NonePending(stage) == \A c \in commandList : c.stage # stage

\* C3: in a run without invalidation after the first commands were issued,
\* with N >= 2 levels, the radiance stage issues 6 commands or none yet, the
\* convolution stage (N-1)*6 or none yet and only when the 6 radiance commands
\* have run, the irradiance stage 1 or none yet and only when the convolution
\* commands have run; when update has returned true the counts are 6,
\* (N-1)*6 and 1 and the 9 coefficients are the texels of the command's output.
C3_FullRunCounts ==
    (~ghost.interrupted /\ manager.mipmapLevels >= 2) =>
        LET n == (manager.mipmapLevels - 1) * 6
            i == ghost.issued
        IN  /\ i["radiance"] \in {0, 6}
            /\ i["convolution"] \in {0, n}
            /\ i["irradiance"] \in {0, 1}
            /\ i["convolution"] > 0 => (i["radiance"] = 6 /\ NonePending("radiance"))
            /\ i["irradiance"] > 0 => (i["convolution"] = n /\ NonePending("convolution"))
            /\ ghost.trues > 0 =>
                 /\ i["radiance"] + i["convolution"] + i["irradiance"] = 6 + n + 1
                 /\ commandList = {}
                 /\ DOMAIN manager.sphericalHarmonicCoefficients = 0 .. 8
                 /\ \A k \in 0 .. 8 :
                       manager.sphericalHarmonicCoefficients[k] =
                           << 100 * ghost.resets + 4 * k,
                              100 * ghost.resets + 4 * k + 1,
                              100 * ghost.resets + 4 * k + 2 >>

C3_Witness ==
    /\ ~ghost.interrupted
    /\ manager.mipmapLevels = 2
    /\ lastOp.op = "update"
    /\ lastOp.ret = "true"
    /\ ghost.issued = [s \in Stages |->
                         CASE s = "radiance" -> 6 [] s = "convolution" -> 6
                           [] s = "irradiance" -> 1]

\* The irradiance command was issued and its postExecute has run.
IrradianceDone ==
    ghost.issued["irradiance"] > 0 /\ NonePending("irradiance")

C5_IdleAfterComplete ==
    [][ ( /\ lastOp'.op = "update"
          /\ ghost.completed
          /\ ghost'.resets = ghost.resets )
        => ( /\ lastOp'.ret = "false"
             /\ UNCHANGED << manager, commandList, context, facesCopied >> ) ]_vars

\* Both positions are defined and differ by at most EPSILON8 in each component.
WithinEpsilon(p, q) ==
    /\ p # NoPosition
    /\ q # NoPosition
    /\ \A k \in 1 .. 3 : p[k] - q[k] <= EPSILON8 /\ q[k] - p[k] <= EPSILON8

\* C6: assigning a position within epsilon of the current one changes
\* nothing: no command is canceled, no slot cleared, no flag changed, the
\* stored position stays, no invalidation is counted.
C6_NearPositionNoOp ==
    [][ (lastOp'.op = "position" /\ WithinEpsilon(lastOp'.arg, manager.position))
        => UNCHANGED program ]_vars

C6_Witness ==
    /\ lastOp.op = "position"
    /\ lastOp.arg # manager.position
    /\ WithinEpsilon(lastOp.arg, manager.position)
    /\ \E c \in commandList : ~c.canceled /\ InSlot(manager, c)

\* C7: a call of update on an enabled manager with a position, at frame time
\* t: if t differs from the baseline _lastTime by at most
\* maximumSecondsDifference, there is no invalidation and the baseline stays;
\* otherwise there is exactly one invalidation and the baseline becomes t.
C7_TimeDrift ==
    [][ ( /\ lastOp'.op = "update"
          /\ manager.enabled
          /\ manager.position # NoPosition )
        => LET t == lastOp'.arg
               d == IF t >= manager.lastTime THEN t - manager.lastTime
                                             ELSE manager.lastTime - t
           IN  IF d <= 1200
               THEN ghost'.resets = ghost.resets /\ manager'.lastTime = manager.lastTime
               ELSE ghost'.resets = ghost.resets + 1 /\ manager'.lastTime = t ]_vars

\* update has just invalidated on drift, with commands of the previous cycle
\* still in the list.
C7_Witness ==
    /\ lastOp.op = "update"
    /\ lastOp.arg = manager.lastTime
    /\ manager.lastTime = 1201
    /\ ghost.resets = 2
    /\ \E c \in commandList : c.canceled

\* C8: called on a manager that is disabled or has no position, update
\* returns false and changes nothing: no command, no GPU object, no flag, no
\* cancellation, no new baseline.
C8_InertUpdate ==
    [][ ( /\ lastOp'.op = "update"
          /\ (~manager.enabled \/ manager.position = NoPosition) )
        => ( lastOp'.ret = "false" /\ UNCHANGED program ) ]_vars

\* An inert call at a drifted time, on a disabled manager whose pipeline is
\* under way.
C8_Witness ==
    /\ lastOp.op = "update"
    /\ lastOp.ret = "false"
    /\ ~manager.enabled
    /\ manager.position # NoPosition
    /\ lastOp.arg - manager.lastTime > 1200
    /\ \E c \in commandList : ~c.canceled

\* C9: after destroy every command left in the list is marked canceled, and
\* no postExecute runs.
C9_DestroyCancelsAll ==
    manager.isDestroyed =>
        /\ \A c \in commandList : c.canceled
        /\ lastOp.op # "execute"

\* C10: after destroy every GPU object the manager created has been
\* destroyed.
C10_DestroyReleasesAll ==
    manager.isDestroyed =>
        \A k \in Kinds : context.destroyed[k] = context.created[k]

\* C11: the coefficient sequence always has its 9 entries; when update has
\* extracted (returned true), entry i is the first three channels of texel i
\* of the 3x3 readback, data[4i], data[4i+1], data[4i+2], in raster order, and
\* the fourth channel data[4i+3] appears nowhere.
C11_ExtractionOrder ==
    /\ DOMAIN manager.sphericalHarmonicCoefficients = 0 .. 8
    /\ (lastOp.op = "update" /\ lastOp.ret = "true") =>
          LET data == ReadPixels(context.irradiance)
          IN  \A i \in 0 .. 8 :
                 /\ Len(manager.sphericalHarmonicCoefficients[i]) = 3
                 /\ \A k \in 1 .. 3 :
                       manager.sphericalHarmonicCoefficients[i][k] = data[4 * i + k - 1]

\* update has extracted the output of an irradiance command of cycle 2: the
\* last coefficient is texel 8, channels 232, 233, 234.
C11_Witness ==
    /\ lastOp.op = "update"
    /\ lastOp.ret = "true"
    /\ context.irradiance.command = {2}
    /\ manager.sphericalHarmonicCoefficients[8] = << 232, 233, 234 >>

\* The command is outstanding: in the list and not canceled.
Outstanding(c) == c \in commandList /\ ~c.canceled

\* The position of a stage in the pipeline.
StageRank(stage) ==
    CASE stage = "radiance" -> 1
      [] stage = "convolution" -> 2
      [] stage = "irradiance" -> 3

\* C12: no command of a later stage issued in the current cycle is in the
\* list together with an outstanding command of an earlier stage of the
\* current cycle: the later stage was issued only when the earlier one of
\* its cycle had completed.
C12_StageOrder ==
    \A c, d \in commandList :
        ( /\ c.cycle = ghost.resets
          /\ d.cycle = ghost.resets
          /\ Outstanding(c) )
        => StageRank(d.stage) <= StageRank(c.stage)

\* The stages of which the step has issued commands.
IssuedInStep == { s \in Stages : ghost'.issued[s] # ghost.issued[s] }

\* C13: a call of update (manager enabled, with a position) does the work of
\* at most one stage, the first in the order radianceMapDirty (set by the
\* call's own invalidation or before), convolutionsCommandsDirty,
\* irradianceCommandDirty, irradiance outstanding, coefficients: it issues
\* commands of at most one stage, and extracts coefficients (returns true)
\* only when it issues nothing and none of the earlier tests fired.
C13_OneStagePerUpdate ==
    [][ ( /\ lastOp'.op = "update"
          /\ manager.enabled
          /\ manager.position # NoPosition )
        => LET radiance == manager.radianceMapDirty \/ ghost'.resets # ghost.resets
               convolution == ~radiance /\ manager.convolutionsCommandsDirty
               irradiance == ~radiance /\ ~convolution /\ manager.irradianceCommandDirty
               extracted == lastOp'.ret = "true"
           IN  /\ Cardinality(IssuedInStep) + (IF extracted THEN 1 ELSE 0) <= 1
               /\ radiance => (IssuedInStep = {"radiance"} /\ ~extracted)
               /\ convolution => (IssuedInStep \subseteq {"convolution"} /\ ~extracted)
               /\ irradiance => (IssuedInStep = {"irradiance"} /\ ~extracted)
               /\ extracted =>
                     /\ ~manager.irradianceTextureDirty
                     /\ manager.sphericalHarmonicCoefficientsDirty
               /\ ~extracted =>
                     manager'.sphericalHarmonicCoefficients =
                         manager.sphericalHarmonicCoefficients ]_vars

\* update has issued the irradiance command in a call that began with stale
\* flags of an earlier cycle set: _sphericalHarmonicCoefficientsDirty is
\* still set when the command is issued, and the call returns false.
C13_Witness ==
    /\ lastOp.op = "update"
    /\ lastOp.ret = "false"
    /\ manager.irradianceTextureDirty
    /\ manager.sphericalHarmonicCoefficientsDirty
    /\ \E c \in commandList :
          c.stage = "irradiance" /\ c.cycle = ghost.resets /\ ~c.canceled

\* C14: when the executor calls the postExecute of a canceled command, every
\* outstanding command a slot holds stays in its slot, and none of the flags
\* _convolutionsCommandsDirty, _irradianceCommandDirty,
\* _sphericalHarmonicCoefficientsDirty gets set.
C14_CanceledCallbackHarmless ==
    [][ lastOp'.op = "executeCanceled"
        => /\ \A c \in commandList' :
                 (~c.canceled /\ InSlot(manager, c)) => InSlot(manager', c)
           /\ manager'.convolutionsCommandsDirty => manager.convolutionsCommandsDirty
           /\ manager'.irradianceCommandDirty => manager.irradianceCommandDirty
           /\ manager'.sphericalHarmonicCoefficientsDirty
                 => manager.sphericalHarmonicCoefficientsDirty ]_vars

\* C15: when update returns with an irradiance command outstanding (in the
\* list, not canceled), it has returned false: it has not extracted.
C15_NoExtractionWhileOutstanding ==
    ( /\ lastOp.op = "update"
      /\ \E c \in commandList : c.stage = "irradiance" /\ Outstanding(c) )
    => lastOp.ret = "false"

\* C16: over the manager's lifetime the context creates at most one cube
\* map, 6 face textures, (N-1)*6 specular (mip chain) textures, one
\* irradiance texture, one convolution program and one vertex array.
C16_AllocatedOnce ==
    /\ context.created["cubeMap"] <= 1
    /\ context.created["faceTexture"] <= 6
    /\ context.created["specularTexture"] <= (manager.mipmapLevels - 1) * 6
    /\ context.created["irradianceTexture"] <= 1
    /\ context.created["convolveSP"] <= 1
    /\ context.created["va"] <= 1

\* The slots after the completion of the command of slot `index`.
Cleared(slots, index) == [slots EXCEPT ![index] = Undefined]

\* C17: with the commands of a stage completing in any order, the completion
\* of a radiance command leaves _convolutionsCommandsDirty set exactly when no
\* radiance command is left, the flag being clear before; the completion of
\* a convolution command leaves _irradianceCommandDirty set, and the
\* LINEAR_MIPMAP_LINEAR sampler installed, exactly when no convolution command
\* is left, the flag being clear and the sampler not installed before; the
\* completion clears the slot of its command and no other.
C17_AnyOrderCompletion ==
    [][ lastOp'.op = "execute"
        => \A c \in commandList \ commandList' :
             /\ c.stage = "radiance" =>
                   /\ ~manager.convolutionsCommandsDirty
                   /\ manager'.convolutionsCommandsDirty <=> NonePending("radiance")'
                   /\ manager'.radianceMapComputeCommands =
                          Cleared(manager.radianceMapComputeCommands, c.index)
                   /\ manager'.convolutionComputeCommands = manager.convolutionComputeCommands
             /\ c.stage = "convolution" =>
                   /\ ~manager.irradianceCommandDirty
                   /\ context.sampler = "default"
                   /\ manager'.irradianceCommandDirty <=> NonePending("convolution")'
                   /\ (context'.sampler = "LINEAR_MIPMAP_LINEAR")
                         <=> NonePending("convolution")'
                   /\ manager'.convolutionComputeCommands =
                          Cleared(manager.convolutionComputeCommands, c.index)
                   /\ manager'.radianceMapComputeCommands = manager.radianceMapComputeCommands
             /\ manager'.irradianceComputeCommand =
                   IF c.stage = "irradiance" THEN Undefined
                   ELSE manager.irradianceComputeCommand ]_vars

\* Convolution commands have completed out of slot order: the command of
\* the last slot has completed, the one of slot 0 is outstanding, and the
\* irradiance stage is not flagged.
C17_Witness ==
    /\ lastOp.op = "execute"
    /\ manager.mipmapLevels = 2
    /\ ghost.issued["convolution"] = 6
    /\ ~defined(manager.convolutionComputeCommands[5])
    /\ defined(manager.convolutionComputeCommands[0])
    /\ ~manager.irradianceCommandDirty
    /\ context.sampler = "default"

\* The radiance commands the step has added to the list.
RadianceAdded ==
    { c \in commandList' :
        /\ c.stage = "radiance"
        /\ \A d \in commandList :
              d.stage # c.stage \/ d.index # c.index \/ d.batch # c.batch }

\* C18: a step adds either no radiance command or 6, one per face, of the
\* cycle then current; it adds them only with _radianceCommandsDirty set
\* (before the step, or by the step's own invalidation) and leaves the flag
\* clear; and only an invalidation sets the flag again.  So the radiance
\* stage issues at most once between two invalidations.
C18_RadianceOncePerCycle ==
    [][ /\ ghost'.issued["radiance"] - ghost.issued["radiance"] = Cardinality(RadianceAdded)
        /\ Cardinality(RadianceAdded) \in {0, 6}
        /\ RadianceAdded # {} =>
              /\ { c.index : c \in RadianceAdded } = 0 .. 5
              /\ \A c \in RadianceAdded : c.cycle = ghost'.resets /\ ~c.canceled
              /\ manager.radianceCommandsDirty \/ ghost'.resets > ghost.resets
              /\ ~manager'.radianceCommandsDirty
        /\ (manager'.radianceCommandsDirty /\ ~manager.radianceCommandsDirty)
              => ghost'.resets > ghost.resets ]_vars

\* In the second cycle update has gone on to the convolution stage: the
\* calls after the one that issued the cycle's 6 radiance commands have
\* issued no more of them.
C18_Witness ==
    /\ lastOp.op = "update"
    /\ ghost.resets = 2
    /\ ghost.issued["radiance"] = 12
    /\ \E c \in commandList : c.stage = "convolution" /\ c.cycle = 2 /\ ~c.canceled

\* C19: with N >= 2, if from some point on the manager keeps a position (it
\* is enabled, and the invalidations have ceased), then update returns true
\* after the last invalidation: from some point on the history shows a true
\* return since the last _reset.
C19_EventuallyTrue ==
    <>[](manager.mipmapLevels >= 2 /\ manager.enabled /\ manager.position # NoPosition)
        => <>[]ghost.completed

\* After an invalidation that came with commands issued, update has returned
\* true and the pipeline is idle.
C19_Witness ==
    /\ manager.mipmapLevels >= 2
    /\ ghost.interrupted
    /\ ghost.completed
    /\ lastOp.op = "update"
    /\ lastOp.ret = "true"
    /\ commandList = {}

\* C20: every outstanding command (in the list, not canceled) is held by
\* the slot of its stage: the slot of its index in the radiance or the
\* convolution array, or the irradiance field.
C20_OutstandingInSlot ==
    \A c \in commandList : Outstanding(c) => InSlot(manager, c)

\* C21: a manager constructed with mipmapLevels = 1 never issues a
\* convolution or an irradiance command, never has _irradianceCommandDirty,
\* _irradianceTextureDirty or _sphericalHarmonicCoefficientsDirty set, never
\* extracts a coefficient, and update never returns true.
C21_OneLevelNeverCompletes ==
    manager.mipmapLevels = 1 =>
        /\ ghost.issued["convolution"] = 0
        /\ ghost.issued["irradiance"] = 0
        /\ \A c \in commandList : c.stage = "radiance"
        /\ ~manager.irradianceCommandDirty
        /\ ~manager.irradianceTextureDirty
        /\ ~manager.sphericalHarmonicCoefficientsDirty
        /\ \A i \in 0 .. 8 : manager.sphericalHarmonicCoefficients[i] = << >>
        /\ ghost.trues = 0
        /\ lastOp.ret # "true"

\* With mipmapLevels = 1 the radiance commands of two cycles have run, the
\* convolution stage has been passed, and update finds no flag set: it
\* falls off its end with nothing outstanding.
C21_Witness ==
    /\ manager.mipmapLevels = 1
    /\ ghost.issued["radiance"] = 12
    /\ commandList = {}
    /\ Flags(manager) = NoFlag
    /\ lastOp.op = "update"
    /\ lastOp.ret = "undefined"

====
